---- MODULE Spec2Model ----
(***************************************************************************)
(* PromptManager (src/src/index.ts): the search bar, the prompt list, the  *)
(* settings dialog and the asynchronous calls to the Tauri backend         *)
(* (get_config, get_prompts, set_prompt_file_path, set_hotkey,             *)
(* minimize_window) and to the clipboard.                                  *)
(*                                                                         *)
(* A string is a sequence of one-character strings.  JavaScript runs each  *)
(* handler to its next await without interleaving, so one action is one    *)
(* run of a handler from an event (or a settled promise) to its next await.*)
(***************************************************************************)
EXTENDS Integers, Sequences, FiniteSets, TLC

\* ------------------------------------------------------------ bounds
\* Longest text typed into the search bar under SpecSearch.
MaxQueryLen == 3
\* Longest text typed into the search bar under Spec.
MaxTyped == 1
\* Clicks on the save button in one run.
MaxSaves == 1
\* Clipboard writes in flight at once.
MaxClipWrites == 1

\* ------------------------------------------------------------ strings
\* The characters typed: a lower-case letter, its upper-case form, a second
\* letter and white space.
Alphabet == {"a", "A", "b", " "}
\* The characters typed under Spec.
TypedAlphabet == {"a"}

RECURSIVE StringsUpTo(_, _)
StringsUpTo(alphabet, n) ==
    IF n = 0 THEN {<<>>}
    ELSE LET shorter == StringsUpTo(alphabet, n - 1)
         IN  shorter \cup {Append(s, c) : s \in shorter, c \in alphabet}

\* String.prototype.toLowerCase, on one character and on a string.
LowerChar(c) == IF c = "A" THEN "a" ELSE c
toLowerCase(s) == [i \in 1..Len(s) |-> LowerChar(s[i])]

IsWhiteSpace(c) == c = " "

\* String.prototype.trim: white space removed from both ends.
RECURSIVE trimStart(_)
trimStart(s) ==
    IF s # <<>> /\ IsWhiteSpace(Head(s)) THEN trimStart(Tail(s)) ELSE s
RECURSIVE trimEnd(_)
trimEnd(s) ==
    IF s # <<>> /\ IsWhiteSpace(s[Len(s)])
    THEN trimEnd(SubSeq(s, 1, Len(s) - 1)) ELSE s
trim(s) == trimEnd(trimStart(s))

\* String.prototype.includes: needle occurs in hay at some position.
includes(hay, needle) ==
    \E i \in 1..(Len(hay) - Len(needle) + 1) :
        SubSeq(hay, i, i + Len(needle) - 1) = needle

Range(f) == {f[i] : i \in DOMAIN f}

\* ------------------------------------------------------------ data
\* interface Prompt.
Prompt(name, content) ==
    [name |-> name, content |-> content, parameters |-> <<>>]

\* The prompt files the backend can read, by path.  In "p1" the prompt that
\* matches "a" only through its content comes first and the prompt whose name
\* starts with "a" comes last; the prompts of "p2" differ from those of "p1".
FileContents(path) ==
    IF path = "p1"
    THEN << Prompt(<<"b">>, <<"a", " ", "b">>),
            Prompt(<<"b", "a">>, <<"b", " ", "a">>),
            Prompt(<<"A", "b">>, <<"B">>) >>
    ELSE << Prompt(<<"a", "a">>, <<"b">>),
            Prompt(<<"b", "b">>, <<"A">>) >>

\* Paths of readable prompt files, and the paths a user can enter.
ReadablePaths == {"p1", "p2"}
Paths == ReadablePaths
\* Hotkey descriptors a user can enter.
Hotkeys == {"", "h1"}

\* The text of the list item shown when nothing matches.
EmptyMessage == <<"nothing found">>

\* ------------------------------------------------------------ state
VARIABLES
    prompts,             \* PromptManager.prompts
    filteredPrompts,     \* PromptManager.filteredPrompts
    settings,            \* PromptManager.settings
    searchBar,           \* elements.searchBar.value
    promptListItems,     \* the <li> children of elements.promptList
    promptListHidden,    \* elements.promptList has class "hidden"
    settingsModalHidden, \* elements.settingsModal has class "hidden"
    promptFilePathInput, \* elements.promptFilePathInput.value
    hotkeyConfigInput,   \* elements.hotkeyConfigInput.value
    modalInsideApp,      \* #settings-modal lies inside .app-container (markup)
    backendConfig,       \* the settings the backend holds
    startup,             \* position of loadSettings() started by the constructor
    saves,               \* the runs of the save-settings click handler
    loads,               \* get_prompts calls in flight
    loadsStarted,        \* number of loadPrompts() calls so far
    loadApplied,         \* which loadPrompts() call assigned this.prompts last
    clipWrites,          \* navigator.clipboard.writeText calls in flight
    lastStep             \* the handler that ran last, with what it saw and did

vars == << prompts, filteredPrompts, settings, searchBar, promptListItems,
           promptListHidden, settingsModalHidden, promptFilePathInput,
           hotkeyConfigInput, modalInsideApp, backendConfig, startup, saves,
           loads, loadsStarted, loadApplied, clipWrites, lastStep >>

searchVars  == << filteredPrompts, searchBar, promptListItems, promptListHidden >>
dialogVars  == << settingsModalHidden, promptFilePathInput, hotkeyConfigInput >>
loadVars    == << loads, loadsStarted, loadApplied >>
clipVars    == << clipWrites >>

\* What a step that is no click records.
Step(kind) ==
    [kind |-> kind, inApp |-> FALSE, inModal |-> FALSE, modalOpen |-> FALSE,
     focused |-> FALSE, minimize |-> FALSE]

\* ------------------------------------------------------------ search
\* The query taken without trim().
SearchQueryUntrimmed(value) == value

\* const query = this.elements.searchBar.value.trim()
SearchQuery(value) == trim(value)

\* The predicate with the operands of includes exchanged.
MatchesSwapped(prompt, searchTerm) ==
    \/ includes(searchTerm, toLowerCase(prompt.name))
    \/ includes(searchTerm, toLowerCase(prompt.content))

\* The predicate that looks at the name only.
MatchesNameOnly(prompt, searchTerm) ==
    includes(toLowerCase(prompt.name), searchTerm)

\* The predicate of filterPrompts: the search term occurs in the lower-cased
\* name or in the lower-cased content.
Matches(prompt, searchTerm) ==
    \/ includes(toLowerCase(prompt.name), searchTerm)
    \/ includes(toLowerCase(prompt.content), searchTerm)

\* this.prompts.filter(...): the matching prompts, in the order of the list.
RECURSIVE FilterList(_, _)
FilterList(list, searchTerm) ==
    IF list = <<>> THEN <<>>
    ELSE IF Matches(Head(list), searchTerm)
         THEN <<Head(list)>> \o FilterList(Tail(list), searchTerm)
         ELSE FilterList(Tail(list), searchTerm)

\* The matching prompts with every name match moved ahead of the others.
filterPromptsNamesFirst(list, query) ==
    LET all == FilterList(list, toLowerCase(query))
        RECURSIVE Pick(_, _)
        Pick(l, byName) ==
            IF l = <<>> THEN <<>>
            ELSE IF includes(toLowerCase(Head(l).name), toLowerCase(query)) = byName
                 THEN <<Head(l)>> \o Pick(Tail(l), byName)
                 ELSE Pick(Tail(l), byName)
    IN  Pick(all, TRUE) \o Pick(all, FALSE)

\* filterPrompts(query): the new value of this.filteredPrompts.
filterPrompts(list, query) == FilterList(list, toLowerCase(query))

\* renderPromptList(): the new children of the prompt list.
renderPromptList(filtered) ==
    IF Len(filtered) = 0
    THEN << [textContent |-> EmptyMessage, content |-> <<>>, onclick |-> FALSE] >>
    ELSE [i \in 1..Len(filtered) |->
            [textContent |-> filtered[i].name,
             content     |-> filtered[i].content,
             onclick     |-> TRUE]]

\* The "input" handler of the search bar, after the user made its value `value`.
SearchInput(value) ==
    /\ searchBar' = value
    /\ IF SearchQuery(value) # <<>>
       THEN /\ filteredPrompts' = filterPrompts(prompts, SearchQuery(value))
            /\ promptListItems' = renderPromptList(filteredPrompts')
            /\ promptListHidden' = FALSE
       ELSE /\ promptListHidden' = TRUE
            /\ UNCHANGED << filteredPrompts, promptListItems >>
    /\ lastStep' = Step("input")
    /\ UNCHANGED << prompts, settings, dialogVars, modalInsideApp, backendConfig,
                    startup, saves, loadVars, clipVars >>

\* ------------------------------------------------------------ clicks
\* Where a click lands: inside .app-container (and outside the dialog), inside
\* #settings-modal, or outside both.
Targets == {"app", "modal", "outside"}
InApp(target) == target = "app" \/ (target = "modal" /\ modalInsideApp)
InModal(target) == target = "modal"

\* The handler holding the hide back until every get_prompts has settled.
DocumentClickMinimizesWhenLoaded(inApp, inModal, modalHidden, focused) ==
    /\ loads = {}
    /\ IF ~inApp /\ ~inModal /\ ~modalHidden THEN FALSE ELSE ~inApp /\ ~focused

\* The document click handler of the constructor: TRUE iff it calls
\* invoke('minimize_window').  Both elements exist in the page.
DocumentClickMinimizes(inApp, inModal, modalHidden, focused) ==
    IF ~inApp /\ ~inModal /\ ~modalHidden
    THEN FALSE
    ELSE ~inApp /\ ~focused

\* What a click records, the click having bubbled to the document after the
\* handler of its target ran and left the dialog hidden or not (modalHidden).
\* focused: document.activeElement === searchBar.  A click on a button, on the
\* backdrop or on a list item finds the search bar without focus, the press
\* of the mouse button having moved the focus.
Click(kind, target, modalHidden, focused) ==
    [kind      |-> kind,
     inApp     |-> InApp(target),
     inModal   |-> InModal(target),
     modalOpen |-> ~modalHidden,
     focused   |-> focused,
     minimize  |-> DocumentClickMinimizes(InApp(target), InModal(target),
                                          modalHidden, focused)]

\* A click on an element that has no handler of its own.
DocumentClick(target, focused) ==
    /\ target = "modal" => ~settingsModalHidden
    /\ lastStep' = Click("click", target, settingsModalHidden, focused)
    /\ UNCHANGED << prompts, settings, searchVars, dialogVars, modalInsideApp,
                    backendConfig, startup, saves, loadVars, clipVars >>

\* settingsBtn "click": the button sits in the search wrapper of the popup.
ClickSettingsBtn ==
    /\ settingsModalHidden' = FALSE
    /\ lastStep' = Click("settings", "app", FALSE, FALSE)
    /\ UNCHANGED << prompts, settings, searchVars, promptFilePathInput,
                    hotkeyConfigInput, modalInsideApp, backendConfig, startup,
                    saves, loadVars, clipVars >>

\* closeSettingsBtn "click".
ClickCloseSettingsBtn ==
    /\ ~settingsModalHidden
    /\ settingsModalHidden' = TRUE
    /\ lastStep' = Click("close", "modal", TRUE, FALSE)
    /\ UNCHANGED << prompts, settings, searchVars, promptFilePathInput,
                    hotkeyConfigInput, modalInsideApp, backendConfig, startup,
                    saves, loadVars, clipVars >>

\* settingsModal "click" with e.target === settingsModal (the backdrop).
ClickModalBackdrop ==
    /\ ~settingsModalHidden
    /\ settingsModalHidden' = TRUE
    /\ lastStep' = Click("backdrop", "modal", TRUE, FALSE)
    /\ UNCHANGED << prompts, settings, searchVars, promptFilePathInput,
                    hotkeyConfigInput, modalInsideApp, backendConfig, startup,
                    saves, loadVars, clipVars >>

\* The user edits the two text fields of the dialog.
EditPromptFilePath(path) ==
    /\ ~settingsModalHidden
    /\ promptFilePathInput' = path
    /\ lastStep' = Step("edit")
    /\ UNCHANGED << prompts, settings, searchVars, settingsModalHidden,
                    hotkeyConfigInput, modalInsideApp, backendConfig, startup,
                    saves, loadVars, clipVars >>

EditHotkey(hotkey) ==
    /\ ~settingsModalHidden
    /\ hotkeyConfigInput' = hotkey
    /\ lastStep' = Step("edit")
    /\ UNCHANGED << prompts, settings, searchVars, settingsModalHidden,
                    promptFilePathInput, modalInsideApp, backendConfig, startup,
                    saves, loadVars, clipVars >>

\* The click handler calling invoke('minimize_window') as well.
ItemClickCallsMinimize(content) ==
    [writeText |-> content, minimize_window |-> TRUE]

\* What the click handler of a rendered prompt calls: the clipboard write of
\* the prompt's content, and no backend command.
ItemClickCalls(content) ==
    [writeText |-> content, minimize_window |-> FALSE]

\* The click handler of a rendered prompt: copy, clear the search bar, hide
\* the list.  The list lies inside .app-container, so the document handler
\* that runs next sees a click inside the popup.
SelectPrompt(i) ==
    /\ ~promptListHidden
    /\ i \in DOMAIN promptListItems
    /\ promptListItems[i].onclick
    /\ Len(clipWrites) < MaxClipWrites
    /\ clipWrites' = Append(clipWrites,
                            ItemClickCalls(promptListItems[i].content).writeText)
    /\ searchBar' = <<>>
    /\ promptListHidden' = TRUE
    /\ lastStep' =
         [Click("select", "app", settingsModalHidden, FALSE) EXCEPT
            !.minimize = @ \/ ItemClickCalls(promptListItems[i].content).minimize_window]
    /\ UNCHANGED << prompts, filteredPrompts, promptListItems, settings,
                    dialogVars, modalInsideApp, backendConfig, startup, saves,
                    loadVars >>

\* navigator.clipboard.writeText settles.
RemoveAt(seq, i) == SubSeq(seq, 1, i - 1) \o SubSeq(seq, i + 1, Len(seq))

ClipboardWritten(i) ==
    /\ i \in DOMAIN clipWrites
    /\ clipWrites' = RemoveAt(clipWrites, i)
    /\ lastStep' = Step("settled")
    /\ UNCHANGED << prompts, settings, searchVars, dialogVars, modalInsideApp,
                    backendConfig, startup, saves, loadVars >>

ClipboardRejected(i) ==
    /\ i \in DOMAIN clipWrites
    /\ clipWrites' = RemoveAt(clipWrites, i)
    /\ lastStep' = Step("settled")
    /\ UNCHANGED << prompts, settings, searchVars, dialogVars, modalInsideApp,
                    backendConfig, startup, saves, loadVars >>

\* ------------------------------------------------------------ backend
\* set_prompt_file_path can succeed only for a readable file, set_hotkey only
\* for a non-empty binding; either can fail for any argument.
PathAcceptable(path) == path \in ReadablePaths
HotkeyAcceptable(hotkey) == hotkey # ""

\* ------------------------------------------------------------ loading
\* loadPrompts() up to its await: invoke get_prompts with the cached path.
StartLoad(filePath) ==
    /\ loadsStarted' = loadsStarted + 1
    /\ loads' = loads \cup {[id |-> loadsStarted + 1, filePath |-> filePath]}
    /\ UNCHANGED loadApplied

\* The result appended to the prompts held.
PromptsAfterLoadMerged(old, result) == old \o result

\* this.prompts after get_prompts resolved with `result`.
PromptsAfterLoad(old, result) == result

\* The prompts held kept when get_prompts rejects.
PromptsAfterLoadErrorKept(old) == old

\* this.prompts after get_prompts rejected.
PromptsAfterLoadError(old) == <<>>

\* get_prompts resolves: the rest of loadPrompts().
LoadResolved(l) ==
    /\ l \in loads
    /\ l.filePath \in ReadablePaths
    /\ prompts' = PromptsAfterLoad(prompts, FileContents(l.filePath))
    /\ loads' = loads \ {l}
    /\ loadApplied' = l.id
    /\ lastStep' = Step("load_resolved")
    /\ UNCHANGED << settings, searchVars, dialogVars, modalInsideApp,
                    backendConfig, startup, saves, loadsStarted, clipVars >>

\* get_prompts rejects: the catch block of loadPrompts().
LoadRejected(l) ==
    /\ l \in loads
    /\ prompts' = PromptsAfterLoadError(prompts)
    /\ loads' = loads \ {l}
    /\ loadApplied' = l.id
    /\ lastStep' = Step("load_rejected")
    /\ UNCHANGED << settings, searchVars, dialogVars, modalInsideApp,
                    backendConfig, startup, saves, loadsStarted, clipVars >>

\* get_config resolves: the rest of loadSettings() up to the await in
\* loadPrompts().
ConfigResolved ==
    /\ startup = "get_config"
    /\ settings' = backendConfig
    /\ promptFilePathInput' = backendConfig.promptFilePath
    /\ hotkeyConfigInput' = backendConfig.hotkey
    /\ StartLoad(settings'.promptFilePath)
    /\ startup' = "loadPrompts"
    /\ lastStep' = Step("settled")
    /\ UNCHANGED << prompts, searchVars, settingsModalHidden, modalInsideApp,
                    backendConfig, saves, clipVars >>

\* get_config rejects: the catch block of loadSettings().
ConfigRejected ==
    /\ startup = "get_config"
    /\ startup' = "failed"
    /\ lastStep' = Step("settled")
    /\ UNCHANGED << prompts, settings, searchVars, dialogVars, modalInsideApp,
                    backendConfig, saves, loadVars, clipVars >>

\* ------------------------------------------------------------ saving
\* saveSettingsBtn "click": saveSettings() reads the two fields and invokes
\* set_prompt_file_path.
ClickSaveSettingsBtn ==
    /\ ~settingsModalHidden
    /\ Len(saves) < MaxSaves
    /\ saves' = Append(saves, [pc           |-> "set_prompt_file_path",
                               newPath      |-> promptFilePathInput,
                               newHotkey    |-> hotkeyConfigInput,
                               pathAccepted |-> FALSE])
    /\ lastStep' = Click("save", "modal", settingsModalHidden, FALSE)
    /\ UNCHANGED << prompts, settings, searchVars, dialogVars, modalInsideApp,
                    backendConfig, startup, loadVars, clipVars >>

\* A run of the click handler that has ended at `pc`; its locals are gone.
Finished(pc, save) ==
    [pc |-> pc, newPath |-> "", newHotkey |-> "", pathAccepted |-> save.pathAccepted]

\* set_prompt_file_path resolves: saveSettings() goes on to invoke set_hotkey.
SetPathResolved(i) ==
    /\ i \in DOMAIN saves
    /\ saves[i].pc = "set_prompt_file_path"
    /\ PathAcceptable(saves[i].newPath)
    /\ backendConfig' = [backendConfig EXCEPT !.promptFilePath = saves[i].newPath]
    /\ saves' = [saves EXCEPT ![i].pc = "set_hotkey", ![i].pathAccepted = TRUE]
    /\ lastStep' = Step("settled")
    /\ UNCHANGED << prompts, settings, searchVars, dialogVars, modalInsideApp,
                    startup, loadVars, clipVars >>

\* set_prompt_file_path rejects: saveSettings() rethrows, the click handler
\* logs the error.
SetPathRejected(i) ==
    /\ i \in DOMAIN saves
    /\ saves[i].pc = "set_prompt_file_path"
    /\ saves' = [saves EXCEPT ![i] = Finished("failed", @)]
    /\ lastStep' = Step("settled")
    /\ UNCHANGED << prompts, settings, searchVars, dialogVars, modalInsideApp,
                    backendConfig, startup, loadVars, clipVars >>

\* set_hotkey resolves: saveSettings() caches the two values and returns; the
\* click handler hides the dialog and calls loadPrompts().
SetHotkeyResolved(i) ==
    /\ i \in DOMAIN saves
    /\ saves[i].pc = "set_hotkey"
    /\ HotkeyAcceptable(saves[i].newHotkey)
    /\ backendConfig' = [backendConfig EXCEPT !.hotkey = saves[i].newHotkey]
    /\ settings' = [promptFilePath |-> saves[i].newPath,
                    hotkey         |-> saves[i].newHotkey]
    /\ settingsModalHidden' = TRUE
    /\ StartLoad(settings'.promptFilePath)
    /\ saves' = [saves EXCEPT ![i] = Finished("loadPrompts", @)]
    /\ lastStep' = Step("settled")
    /\ UNCHANGED << prompts, searchVars, promptFilePathInput, hotkeyConfigInput,
                    modalInsideApp, startup, clipVars >>

\* set_hotkey rejects: saveSettings() rethrows, the click handler logs the
\* error; neither the dialog is hidden nor loadPrompts() called.
SetHotkeyRejected(i) ==
    /\ i \in DOMAIN saves
    /\ saves[i].pc = "set_hotkey"
    /\ saves' = [saves EXCEPT ![i] = Finished("failed", @)]
    /\ lastStep' = Step("settled")
    /\ UNCHANGED << prompts, settings, searchVars, dialogVars, modalInsideApp,
                    backendConfig, startup, loadVars, clipVars >>

\* ------------------------------------------------------------ specification
\* The page as loaded: the prompt list and the settings dialog carry the
\* class "hidden" that the handlers remove.
HiddenAtLoad == TRUE

\* The state after new PromptManager(): loadSettings() has invoked get_config.
\* The markup decides whether the dialog is a descendant of .app-container;
\* the handlers work with either, so both are initial states.
Init ==
    /\ prompts = <<>>
    /\ filteredPrompts = <<>>
    /\ settings = [promptFilePath |-> "", hotkey |-> ""]
    /\ searchBar = <<>>
    /\ promptListItems = <<>>
    /\ promptListHidden = HiddenAtLoad
    /\ settingsModalHidden = HiddenAtLoad
    /\ promptFilePathInput = ""
    /\ hotkeyConfigInput = ""
    /\ modalInsideApp \in BOOLEAN
    /\ backendConfig = [promptFilePath |-> "p1", hotkey |-> "h1"]
    /\ startup = "get_config"
    /\ saves = <<>>
    /\ loads = {}
    /\ loadsStarted = 0
    /\ loadApplied = 0
    /\ clipWrites = <<>>
    /\ lastStep = Step("constructor")

\* The backend calls of startup and of a reload settling.
Settle ==
    \/ ConfigResolved
    \/ ConfigRejected
    \/ \E l \in loads : LoadResolved(l)
    \/ \E l \in loads : LoadRejected(l)

\* Selecting a rendered prompt, and the clipboard write settling.
Select ==
    \/ \E i \in DOMAIN promptListItems : SelectPrompt(i)
    \/ \E i \in 1..MaxClipWrites : ClipboardWritten(i)
    \/ \E i \in 1..MaxClipWrites : ClipboardRejected(i)

\* Opening and closing the settings dialog by its buttons.
Dialog ==
    \/ ClickSettingsBtn
    \/ ClickCloseSettingsBtn

\* Editing and saving the settings, and the backend's answers.
Save ==
    \/ ClickSaveSettingsBtn
    \/ \E path \in Paths : EditPromptFilePath(path)
    \/ \E hotkey \in Hotkeys : EditHotkey(hotkey)
    \/ \E i \in 1..MaxSaves : SetPathResolved(i)
    \/ \E i \in 1..MaxSaves : SetPathRejected(i)
    \/ \E i \in 1..MaxSaves : SetHotkeyResolved(i)
    \/ \E i \in 1..MaxSaves : SetHotkeyRejected(i)

\* Loading, searching and saving settings, the texts typed into the search
\* bar being short.  No prompt is selected: a selection changes nothing that
\* a reload, a save or a later query reads.
Next ==
    \/ Settle
    \/ \E value \in StringsUpTo(TypedAlphabet, MaxTyped) : SearchInput(value)
    \/ Dialog
    \/ Save

Spec == Init /\ [][Next]_vars

\* The popup used for searching only: the settings dialog stays closed and
\* the search bar receives every text up to MaxQueryLen characters.
NextSearch ==
    \/ Settle
    \/ Select
    \/ \E value \in StringsUpTo(Alphabet, MaxQueryLen) : SearchInput(value)

SpecSearch == Init /\ [][NextSearch]_vars

\* Clicks anywhere in the page, with the dialog opened and closed but nothing
\* saved.
NextClicks ==
    \/ Settle
    \/ Select
    \/ \E value \in StringsUpTo(TypedAlphabet, MaxTyped) : SearchInput(value)
    \/ Dialog
    \/ ClickModalBackdrop
    \/ \E target \in Targets, focused \in BOOLEAN : DocumentClick(target, focused)

SpecClicks == Init /\ [][NextClicks]_vars

\* Clicks outside the popup while backend calls and clipboard writes are
\* pending: startup, searching, selecting, saving the settings as loaded and
\* clicking anywhere.
NextDismiss ==
    \/ Settle
    \/ Select
    \/ \E value \in StringsUpTo(TypedAlphabet, MaxTyped) : SearchInput(value)
    \/ Dialog
    \/ ClickSaveSettingsBtn
    \/ \E i \in 1..MaxSaves : SetPathResolved(i)
    \/ \E i \in 1..MaxSaves : SetPathRejected(i)
    \/ \E i \in 1..MaxSaves : SetHotkeyResolved(i)
    \/ \E i \in 1..MaxSaves : SetHotkeyRejected(i)
    \/ \E target \in Targets, focused \in BOOLEAN : DocumentClick(target, focused)

SpecDismiss == Init /\ [][NextDismiss]_vars

\* ------------------------------------------------------------ properties
\* The query just answered: the search bar's handler ran last and its trimmed
\* value is the query.
Query == trim(searchBar)
QueryAnswered == lastStep.kind = "input" /\ Query # <<>>

\* The matching policy by substring: the lower-cased query occurs in the
\* lower-cased name or in the lower-cased content.
InName(prompt, query) == includes(toLowerCase(prompt.name), toLowerCase(query))
InContent(prompt, query) == includes(toLowerCase(prompt.content), toLowerCase(query))
SubstringPolicy(prompt, query) == InName(prompt, query) \/ InContent(prompt, query)

\* The prompts a user can select: the items of the visible list that carry a
\* click handler.
OfferedItems ==
    IF promptListHidden THEN {}
    ELSE {i \in DOMAIN promptListItems : promptListItems[i].onclick}

\* C1: after a query with a non-empty trimmed text, every prompt of the result
\* is a prompt of the loaded set and the lower-cased query is a substring of
\* its lower-cased name or content.
C1_ResultsAreLoadedAndMatch ==
    QueryAnswered =>
        \A i \in DOMAIN filteredPrompts :
            /\ \E j \in DOMAIN prompts : prompts[j] = filteredPrompts[i]
            /\ SubstringPolicy(filteredPrompts[i], Query)

\* C1 witness: a query answered with some but not all of the loaded prompts,
\* its text holding an upper-case letter.
C1_Witness ==
    /\ QueryAnswered
    /\ filteredPrompts # <<>>
    /\ Len(filteredPrompts) < Len(prompts)
    /\ "A" \in Range(Query)

\* C2: whenever the trimmed text of the search bar is empty, the result list
\* is hidden and no prompt can be selected.
C2_EmptyQueryOffersNothing ==
    Query = <<>> => promptListHidden /\ OfferedItems = {}

\* C2 witness: white space only typed into the search bar after a query that
\* had results.
C2_Witness ==
    /\ lastStep.kind = "input"
    /\ searchBar # <<>>
    /\ Query = <<>>
    /\ filteredPrompts # <<>>
    /\ promptListHidden

\* hay starts with needle.
startsWith(hay, needle) ==
    /\ Len(needle) <= Len(hay)
    /\ SubSeq(hay, 1, Len(needle)) = needle

\* The rank of a match: 1 the name starts with the query, 2 the name contains
\* it, 3 only the content does.
Rank(prompt, query) ==
    IF startsWith(toLowerCase(prompt.name), toLowerCase(query)) THEN 1
    ELSE IF InName(prompt, query) THEN 2
    ELSE 3

\* The positions of the loaded set from which the result is drawn, in order.
OrderPreservingPicks ==
    {f \in [DOMAIN filteredPrompts -> DOMAIN prompts] :
        /\ \A i \in DOMAIN filteredPrompts : prompts[f[i]] = filteredPrompts[i]
        /\ \A i, j \in DOMAIN filteredPrompts : i < j => f[i] < f[j]}

\* C3 as stated: the result is ordered by rank, a name-prefix match before a
\* name-substring match before a content match.
C3_RankedOrder ==
    QueryAnswered =>
        \A i, j \in DOMAIN filteredPrompts :
            i < j => Rank(filteredPrompts[i], Query) <= Rank(filteredPrompts[j], Query)

\* C3 as amended: the result keeps the order of the loaded prompt set whatever
\* the ranks; no match is moved ahead of a prompt that precedes it in the set.
C3_OriginalOrder ==
    QueryAnswered => OrderPreservingPicks # {}

\* C3 witness: a result in which a content-only match precedes a name match.
C3_Witness ==
    /\ QueryAnswered
    /\ \E i, j \in DOMAIN filteredPrompts :
          /\ i < j
          /\ Rank(filteredPrompts[i], Query) = 3
          /\ Rank(filteredPrompts[j], Query) < 3

\* The terms of a text: its maximal runs of characters other than white
\* space, lower-cased.
Terms(text) ==
    {toLowerCase(SubSeq(text, run[1], run[2])) : run \in
        {ij \in (1..Len(text)) \X (1..Len(text)) :
            /\ ij[1] <= ij[2]
            /\ \A k \in ij[1]..ij[2] : ~IsWhiteSpace(text[k])
            /\ ij[1] = 1 \/ IsWhiteSpace(text[ij[1] - 1])
            /\ ij[2] = Len(text) \/ IsWhiteSpace(text[ij[2] + 1])}}

\* Every term of the query is a term of the prompt's name or content.
TermPolicy(prompt, query) ==
    Terms(query) \subseteq (Terms(prompt.name) \cup Terms(prompt.content))

\* C4 as stated: every loaded prompt that matches by substring or by terms is
\* in the result.
C4_CompleteWithTerms ==
    QueryAnswered =>
        \A j \in DOMAIN prompts :
            SubstringPolicy(prompts[j], Query) \/ TermPolicy(prompts[j], Query)
                => prompts[j] \in Range(filteredPrompts)

\* C4 as amended: every loaded prompt that matches by substring is in the
\* result; a prompt that matches only by its terms is not.
C4_CompleteBySubstring ==
    QueryAnswered =>
        \A j \in DOMAIN prompts :
            SubstringPolicy(prompts[j], Query) <=> prompts[j] \in Range(filteredPrompts)

\* C4 witness: a result holding a prompt matched through its content only,
\* and leaving out a prompt whose terms are those of the query in another
\* order.
C4_Witness ==
    /\ QueryAnswered
    /\ \E j \in DOMAIN prompts :
          /\ ~InName(prompts[j], Query)
          /\ prompts[j] \in Range(filteredPrompts)
    /\ \E j \in DOMAIN prompts :
          /\ TermPolicy(prompts[j], Query)
          /\ prompts[j] \notin Range(filteredPrompts)

\* A failed reload: get_prompts of some loadPrompts() call rejects.
ReloadFails == \E l \in loads : LoadRejected(l)

C6_LastStartedReloadWins ==
    loads = {} /\ loadApplied # 0 => loadApplied = loadsStarted

\* The prompt sets a reload can publish: the empty set and the content of
\* each readable file.
Generations == {<<>>} \cup {FileContents(path) : path \in ReadablePaths}

\* C7: a query answered at any time, in particular while a reload is in
\* flight, returns prompts of one prompt set only.
C7_QueryFromOneGeneration ==
    QueryAnswered =>
        \E g \in Generations : Range(filteredPrompts) \subseteq Range(g)

\* C7 witness: a query answered with prompts of the set loaded first while
\* the reload of another file is in flight.
C7_Witness ==
    /\ QueryAnswered
    /\ filteredPrompts # <<>>
    /\ \E l \in loads :
          /\ l.filePath \in ReadablePaths
          /\ Range(filteredPrompts) \cap Range(FileContents(l.filePath)) = {}

\* The clicks, all of which reach the document click handler.
ClickKinds == {"click", "settings", "close", "backdrop", "save", "select"}

\* C8: a click requests the hide exactly when it lands outside the popup
\* container and outside any open settings dialog while the search field is
\* not focused.
C8_HideExactlyOnOutsideClick ==
    lastStep.kind \in ClickKinds =>
        (lastStep.minimize <=>
            /\ ~lastStep.inApp
            /\ ~(lastStep.modalOpen /\ lastStep.inModal)
            /\ ~lastStep.focused)

\* C9 as stated: the selection of a prompt requests the hide.
C9_SelectionRequestsHide ==
    lastStep.kind = "select" => lastStep.minimize

\* C9 as amended: the selection of a prompt requests no hide; it starts the
\* clipboard write, clears the search bar and hides the result list.
C9_SelectionHidesListOnly ==
    lastStep.kind = "select" =>
        /\ ~lastStep.minimize
        /\ clipWrites # <<>>
        /\ searchBar = <<>>
        /\ promptListHidden

\* C9 witness: a prompt has just been selected from a list of several.
C9_Witness ==
    /\ lastStep.kind = "select"
    /\ Len(promptListItems) > 1
    /\ clipWrites # <<>>

\* C10: no run of the save handler whose set_prompt_file_path succeeded ends
\* without having called loadPrompts().
C10_AcceptedPathIsReloaded ==
    \A i \in DOMAIN saves :
        saves[i].pathAccepted => saves[i].pc # "failed"

\* The calls that have not settled: get_config, get_prompts, the two calls of
\* a save, and clipboard writes.
PendingSaves == { i \in DOMAIN saves : saves[i].pc \in {"set_prompt_file_path", "set_hotkey"} }
PendingCalls ==
    \/ startup = "get_config"
    \/ loads # {}
    \/ PendingSaves # {}
    \/ clipWrites # <<>>

\* The document click handler runs now for a click outside the popup with the
\* search field unfocused, calls minimize_window in that run, and every
\* pending call is as pending after it as before.
HideIssuedNow ==
    ENABLED ( /\ DocumentClick("outside", FALSE)
              /\ lastStep'.minimize
              /\ startup' = startup
              /\ loads' = loads
              /\ saves' = saves
              /\ clipWrites' = clipWrites )

ListOfLoadedPrompts == renderPromptList(filterPrompts(prompts, Query))

\* C12: whenever a prompt can be selected from the displayed list, the result
\* and the rendered items, with the content each item copies, are those
\* computed from the prompt set loaded now.
C12_OfferedFromLoadedSet ==
    OfferedItems # {} =>
        /\ filteredPrompts = filterPrompts(prompts, Query)
        /\ promptListItems = ListOfLoadedPrompts

\* A step in which set_prompt_file_path or set_hotkey rejects.
SaveRejects ==
    \E i \in PendingSaves : saves'[i].pc = "failed"

\* A rejected save leaves the cached settings, the loaded prompts, the
\* reloads in flight and the settings dialog as they were.
RejectedSaveChangesNothing ==
    SaveRejects =>
        UNCHANGED << settings, prompts, loads, loadsStarted, settingsModalHidden >>

\* The settings were read at startup and no save is in progress.
SavesSettled == startup = "loadPrompts" /\ PendingSaves = {}

\* The cached settings are the path and the hotkey the backend holds.
CacheIsBackendConfig == SavesSettled => settings = backendConfig

\* C13: a rejected save changes nothing on the UI side, and once the saves
\* have settled the cached settings equal the path and the hotkey the backend
\* last accepted.
C13_RejectedSaveChangesNothing ==
    [][RejectedSaveChangesNothing /\ CacheIsBackendConfig']_vars

\* The first half of C13 on its own.
RejectedSaveFrame == [][RejectedSaveChangesNothing]_vars

====
